---- MODULE Spec2Model ----
(***************************************************************************)
(* Model of crates/volta-core/src/log.rs: the Logger that volta installs   *)
(* as the sink of the `log` facade.                                        *)
(*                                                                         *)
(* Text is modelled as a sequence of one-character strings, so that        *)
(* starts_with, format!, fill and replace are computed character by        *)
(* character.  The value of the environment variable is only ever compared *)
(* for equality with literal tokens, so it is kept as an atomic string.    *)
(***************************************************************************)
EXTENDS Integers, Sequences, FiniteSets, TLC

(***************************************************************************)
(* log::LevelFilter / log::Level, ordered as in the `log` crate.           *)
(***************************************************************************)
Off == 0
Error == 1
Warn == 2
Info == 3
Debug == 4
Trace == 5

LevelFilters == {Off, Error, Warn, Info, Debug, Trace}
Levels == {Error, Warn, Info, Debug, Trace}

LogContext == {"Volta", "Shim"}
LogVerbosity == {"Quiet", "Default", "Verbose"}

(***************************************************************************)
(* String constants of the module.                                         *)
(***************************************************************************)
ERROR_PREFIX == <<"e","r","r","o","r",":">>
WARNING_PREFIX == <<"w","a","r","n","i","n","g",":">>
SHIM_ERROR_PREFIX == <<"V","o","l","t","a"," ","e","r","r","o","r",":">>
SHIM_WARNING_PREFIX == <<"V","o","l","t","a"," ","w","a","r","n","i","n","g",":">>
VOLTA_LOGLEVEL == "VOLTA_LOGLEVEL"
ALLOWED_PREFIX == <<"v","o","l","t","a">>
WRAP_INDENT == <<" "," "," "," ">>
VERBOSE_TAG == <<"[","v","e","r","b","o","s","e","]"," ">>

(***************************************************************************)
(* Bounds of the model.                                                    *)
(***************************************************************************)
MaxRepeat == 14
NarrowCols == 16
WideCols == 30

RECURSIVE Repeat(_, _)
Repeat(c, n) == IF n = 0 THEN <<>> ELSE <<c>> \o Repeat(c, n - 1)

(***************************************************************************)
(* Inputs: messages, source tags, values of the environment variable and   *)
(* terminal widths.                                                        *)
(***************************************************************************)
MsgCacheMiss == <<"c","a","c","h","e"," ","m","i","s","s">>
MsgInner == <<"s","e","e"," ","w","a","r","n","i","n","g",":"," ","a","b","o","v","e">>
MsgShimInner == <<"a"," ","V","o","l","t","a"," ","w","a","r","n","i","n","g",":"," ","b">>
MsgLong == Repeat("x", MaxRepeat)

Messages == {MsgCacheMiss, MsgInner, MsgShimInner, MsgLong}

TagVolta == <<"v","o","l","t","a">>
TagVoltaCore == <<"v","o","l","t","a","_","c","o","r","e",":",":","t","o","o","l">>
TagUpper == <<"V","o","l","t","a">>
TagShort == <<"v","o","l">>

Targets == {TagVolta, TagVoltaCore, TagUpper, TagShort}

\* env::var(VOLTA_LOGLEVEL): Ok(value) or Err (absent)
EnvAbsent == [ok |-> FALSE, val |-> ""]
EnvOk(v) == [ok |-> TRUE, val |-> v]
EnvTokens == {"off", "error", "warn", "info", "debug", "trace"}
EnvValues == {EnvAbsent} \cup {EnvOk(v) : v \in EnvTokens \cup {"", "OFF", "verbose"}}

Cols == {NarrowCols, WideCols}

(***************************************************************************)
(* Text helpers.                                                           *)
(***************************************************************************)
\* str::starts_with
StartsWith(s, p) == Len(s) >= Len(p) /\ SubSeq(s, 1, Len(p)) = p

\* &s[a..b] with 0-based offsets
Slice(s, a, b) == SubSeq(s, a + 1, b)

\* char::is_whitespace on the characters the model uses
IsWhitespace(ch) == ch \in {" ", "\n", "\t"}

\* UnicodeWidthChar::width(ch).unwrap_or(0): control characters have no width
CharWidth(ch) == IF ch \in {"\n", "\t"} THEN 0 ELSE 1

\* str::find(is_whitespace): length of the text before the first whitespace
RECURSIVE WordLen(_)
WordLen(s) ==
  IF s = <<>> \/ IsWhitespace(Head(s)) THEN 0 ELSE 1 + WordLen(Tail(s))

\* str::replace(from, to): every non-overlapping match, left to right
RECURSIVE Replace(_, _, _)
Replace(s, from, to) ==
  IF s = <<>> THEN <<>>
  ELSE IF StartsWith(s, from) THEN to \o Replace(Slice(s, Len(from), Len(s)), from, to)
  ELSE <<Head(s)>> \o Replace(Tail(s), from, to)

\* a single str::replacen(from, to, 1) at the start of the text
StripLeading(s, from) ==
  IF StartsWith(s, from) THEN Slice(s, Len(from), Len(s)) ELSE s

\* number of (possibly overlapping) occurrences of `p` in `s`
RECURSIVE Count(_, _)
Count(s, p) ==
  IF Len(s) < Len(p) THEN 0
  ELSE (IF StartsWith(s, p) THEN 1 ELSE 0) + Count(Tail(s), p)

\* lines.join("\n")
RECURSIVE Join(_)
Join(lines) ==
  IF lines = <<>> THEN <<>>
  ELSE IF Len(lines) = 1 THEN lines[1]
  ELSE lines[1] \o <<"\n">> \o Join(Tail(lines))

(***************************************************************************)
(* textwrap: Wrapper::with_splitter(width, NoHyphenation)                  *)
(*             .subsequent_indent(WRAP_INDENT).break_words(false).fill(s)  *)
(* The wrapper scans the text once, remembering the last whitespace run    *)
(* (split, split_len) and cutting the line there when a character no       *)
(* longer fits.  Offsets are 0-based as in the library.                    *)
(***************************************************************************)
WrapStart ==
  [start |-> 0, split |-> 0, split_len |-> 0, line_width |-> 0,
   line_width_at_split |-> 0, in_whitespace |-> FALSE]

\* initial_indent is empty; continuation lines carry the subsequent indent
ResultLine(st) == IF st.start = 0 THEN <<>> ELSE WRAP_INDENT

RECURSIVE WrapIter(_, _, _, _, _)
WrapIter(s, width, idx, st, lines) ==
  IF idx >= Len(s)
  THEN IF st.start < Len(s)
       THEN Append(lines, ResultLine(st) \o Slice(s, st.start, Len(s)))
       ELSE lines
  ELSE
    LET ch == s[idx + 1]
        cw == CharWidth(ch)
    IN
    IF ch = "\n" THEN
      LET st1 == [st EXCEPT !.split = idx, !.split_len = 1,
                            !.line_width_at_split = st.line_width,
                            !.in_whitespace = FALSE]
      IN IF idx + 1 < Len(s)
         THEN WrapIter(s, width, idx + 1,
                       [st1 EXCEPT !.start = idx + 1,
                                   !.line_width = Len(WRAP_INDENT)],
                       Append(lines, ResultLine(st) \o Slice(s, st.start, idx)))
         ELSE WrapIter(s, width, idx + 1,
                       [st1 EXCEPT !.line_width = @ + cw], lines)
    ELSE IF IsWhitespace(ch) THEN
      WrapIter(s, width, idx + 1,
               [st EXCEPT !.split = IF st.in_whitespace THEN @ ELSE idx,
                          !.split_len = IF st.in_whitespace THEN @ + 1 ELSE 1,
                          !.line_width_at_split = st.line_width + cw,
                          !.in_whitespace = TRUE,
                          !.line_width = @ + cw],
               lines)
    ELSE IF st.line_width + cw > width THEN
      LET \* NoHyphenation: the only split of the final word is the word itself
          final_word == WordLen(Slice(s, st.split + st.split_len, Len(s)))
          fits == st.line_width_at_split + final_word <= width
          split1 == IF fits THEN st.split + st.split_len + final_word ELSE st.split
          split_len1 == IF fits THEN 0 ELSE st.split_len
          \* break_words(false): a word wider than the line is kept whole
          tooBig == st.start >= split1
          split2 == IF tooBig THEN st.start + final_word ELSE split1
          split_len2 == IF tooBig THEN 0 ELSE split_len1
          at_split2 == IF tooBig THEN st.line_width ELSE st.line_width_at_split
          st2 == [st EXCEPT !.split = split2, !.split_len = split_len2,
                            !.line_width_at_split = at_split2,
                            !.in_whitespace = FALSE]
      IN IF st.start < split2
         THEN WrapIter(s, width, idx + 1,
                       [st2 EXCEPT !.start = split2 + split_len2,
                                   !.line_width = st.line_width + Len(WRAP_INDENT)
                                                  - at_split2 + cw],
                       Append(lines, ResultLine(st) \o Slice(s, st.start, split2)))
         ELSE WrapIter(s, width, idx + 1,
                       [st2 EXCEPT !.line_width = @ + cw], lines)
    ELSE
      WrapIter(s, width, idx + 1,
               [st EXCEPT !.in_whitespace = FALSE, !.line_width = @ + cw],
               lines)

Fill(s, width) == Join(WrapIter(s, width, 0, WrapStart, <<>>))

(***************************************************************************)
(* State.                                                                  *)
(*   env, tty, cols  the process environment: the value of VOLTA_LOGLEVEL, *)
(*                   whether stdout is a terminal, and its column count    *)
(*   logger          the boxed logger held by the `log` facade: <<>> until *)
(*                   set_boxed_logger succeeds, then <<Logger>>            *)
(*   max_level       the facade's process-wide maximum level               *)
(*   installer       the arguments of the init call that installed logger  *)
(*   last            the latest call: its arguments and what it returned   *)
(*   out             what the latest call wrote to stdout / stderr         *)
(***************************************************************************)
VARIABLES env, tty, cols, logger, max_level, installer, last, out

vars == <<env, tty, cols, logger, max_level, installer, last, out>>

\* crate::style::text_width(): the terminal width, when stdout is a terminal
text_width == IF tty THEN <<cols>> ELSE <<>>

\* wrap_content with the None arm wrapping nothing and adding no space
wrap_content_NoGap(prefix, content) ==
  IF text_width # <<>>
  THEN Replace(Fill(prefix \o <<" ">> \o content, text_width[1]), prefix, <<>>)
  ELSE content

wrap_content(prefix, content) ==
  IF text_width # <<>>
  THEN Replace(Fill(prefix \o <<" ">> \o content, text_width[1]), prefix, <<>>)
  ELSE <<" ">> \o content

\* level_from_env with the terminal test inverted
level_from_env_Swapped ==
  IF env.ok /\ env.val = "off" THEN Off
  ELSE IF env.ok /\ env.val = "error" THEN Error
  ELSE IF env.ok /\ env.val = "warn" THEN Warn
  ELSE IF env.ok /\ env.val = "info" THEN Info
  ELSE IF env.ok /\ env.val = "debug" THEN Debug
  ELSE IF env.ok /\ env.val = "trace" THEN Trace
  ELSE IF tty THEN Error ELSE Info

level_from_env ==
  IF env.ok /\ env.val = "off" THEN Off
  ELSE IF env.ok /\ env.val = "error" THEN Error
  ELSE IF env.ok /\ env.val = "warn" THEN Warn
  ELSE IF env.ok /\ env.val = "info" THEN Info
  ELSE IF env.ok /\ env.val = "debug" THEN Debug
  ELSE IF env.ok /\ env.val = "trace" THEN Trace
  ELSE IF tty THEN Info ELSE Error

\* Logger::new with Quiet read from the environment like Default
Logger_new_QuietFromEnv(context, verbosity) ==
  [context |-> context,
   level |-> CASE verbosity = "Quiet" -> level_from_env
               [] verbosity = "Default" -> level_from_env
               [] verbosity = "Verbose" -> Debug]

Logger_new(context, verbosity) ==
  [context |-> context,
   level |-> CASE verbosity = "Quiet" -> Error
               [] verbosity = "Default" -> level_from_env
               [] verbosity = "Verbose" -> Debug]

\* Logger::enabled comparing the wrong way round
Logger_enabled_Reversed(self, level) == level >= self.level

\* Logger::enabled letting through only the threshold's own level
Logger_enabled_Exact(self, level) == level = self.level

Logger_enabled(self, level) == level <= self.level

(***************************************************************************)
(* A write is one println!/eprintln! call: the stream, the styled prefix   *)
(* (style "plain" and an empty prefix when nothing is styled) and the text *)
(* that follows it on the line.                                            *)
(***************************************************************************)
Write(stream, styling, prefix, text) ==
  [stream |-> stream, style |-> styling, prefix |-> prefix, text |-> text]

log_error(self, message) ==
  LET prefix == IF self.context = "Volta" THEN ERROR_PREFIX ELSE SHIM_ERROR_PREFIX
  IN Write("stderr", "red_bold", prefix, <<" ">> \o message)

log_warning(self, message) ==
  LET prefix == IF self.context = "Volta" THEN WARNING_PREFIX ELSE SHIM_WARNING_PREFIX
  IN Write("stdout", "yellow_bold", prefix, wrap_content(prefix, message))

\* Logger::log without the test on the record's target
Logger_log_AnyTarget(self, record) ==
  IF Logger_enabled(self, record.level)
  THEN << CASE record.level = Error -> log_error(self, record.args)
            [] record.level = Warn -> log_warning(self, record.args)
            [] record.level = Debug ->
                 Write("stdout", "plain", <<>>, VERBOSE_TAG \o record.args)
            [] OTHER -> Write("stdout", "plain", <<>>, record.args) >>
  ELSE <<>>

\* Logger::log sending every level to the error stream's renderer
Logger_log_AllErrors(self, record) ==
  IF Logger_enabled(self, record.level) /\ StartsWith(record.target, ALLOWED_PREFIX)
  THEN << log_error(self, record.args) >>
  ELSE <<>>

\* Logger::log: the writes made for one record
Logger_log(self, record) ==
  IF Logger_enabled(self, record.level) /\ StartsWith(record.target, ALLOWED_PREFIX)
  THEN << CASE record.level = Error -> log_error(self, record.args)
            [] record.level = Warn -> log_warning(self, record.args)
            [] record.level = Debug ->
                 Write("stdout", "plain", <<>>, VERBOSE_TAG \o record.args)
            [] OTHER -> Write("stdout", "plain", <<>>, record.args) >>
  ELSE <<>>

NoCall ==
  [op |-> "none", context |-> "Volta", verbosity |-> "Default",
   built |-> [context |-> "Volta", level |-> Off], result |-> "none",
   level |-> Off, target |-> <<>>, args |-> <<>>, delivered |-> FALSE]

Init ==
  /\ env \in EnvValues
  /\ tty \in BOOLEAN
  /\ cols \in (IF tty THEN Cols ELSE {0})
  /\ logger = <<>>
  /\ max_level = Off
  /\ installer = <<>>
  /\ last = NoCall
  /\ out = <<>>

(***************************************************************************)
(* Logger::init(context, verbosity): build the Logger, set the facade's    *)
(* maximum level from it, then try to install it; set_boxed_logger fails   *)
(* when a logger is already installed and leaves that one in place.        *)
(***************************************************************************)
Logger_init(context, verbosity) ==
  LET built == Logger_new(context, verbosity)
      ok == logger = <<>>
  IN /\ max_level' = built.level
     /\ logger' = IF ok THEN <<built>> ELSE logger
     /\ installer' = IF ok THEN <<[context |-> context, verbosity |-> verbosity]>>
                     ELSE installer
     /\ last' = [NoCall EXCEPT !.op = "init", !.context = context,
                               !.verbosity = verbosity, !.built = built,
                               !.result = IF ok THEN "Ok" ELSE "Err"]
     /\ out' = <<>>
     /\ UNCHANGED <<env, tty, cols>>

(***************************************************************************)
(* One use of the facade's macros (error!, warn!, info!, debug!, trace!):  *)
(* the macro compares the level with the process-wide maximum and only     *)
(* then hands the record to the installed logger's `log`.  Before a logger *)
(* is installed the facade's no-op logger receives it.                     *)
(***************************************************************************)
LogRecord(level, target, args) ==
  LET record == [level |-> level, target |-> target, args |-> args]
      delivered == level <= max_level /\ logger # <<>>
  IN /\ out' = IF delivered THEN Logger_log(logger[1], record) ELSE <<>>
     /\ last' = [NoCall EXCEPT !.op = "log", !.level = level, !.target = target,
                               !.args = args, !.delivered = delivered]
     /\ UNCHANGED <<env, tty, cols, logger, max_level, installer>>

Next ==
  \/ \E context \in LogContext, verbosity \in LogVerbosity :
       Logger_init(context, verbosity)
  \/ \E level \in Levels, target \in Targets, args \in Messages :
       LogRecord(level, target, args)

Spec == Init /\ [][Next]_vars

TypeOK ==
  /\ env \in EnvValues
  /\ tty \in BOOLEAN
  /\ Len(logger) <= 1
  /\ max_level \in LevelFilters
  /\ Len(out) <= 1

(***************************************************************************)
(* Properties.                                                             *)
(***************************************************************************)
Installed == logger # <<>>
Sink == logger[1]
Reserved(target) == StartsWith(target, ALLOWED_PREFIX)
IsInitCall == last.op = "init"
IsLogCall == last.op = "log"

\* the (level, target) pairs a use of the macros gets rendered in this state
Rendered ==
  {e \in Levels \X Targets :
     /\ Installed
     /\ e[1] <= max_level
     /\ Logger_log(Sink, [level |-> e[1], target |-> e[2], args |-> <<>>]) # <<>>}

\* C1: the first init call succeeds and installs its Logger; every later
\* init call returns a setup error and leaves the installed Logger, with its
\* context and threshold, and the set of events that get rendered as they
\* were before the call.
C1_ReinitChangesNothing ==
  [][last'.op = "init" =>
       IF logger = <<>>
       THEN last'.result = "Ok" /\ logger' = <<last'.built>>
       ELSE last'.result = "Err" /\ logger' = logger /\ Rendered' = Rendered]_vars

\* C2: once a Logger is installed, the process-wide maximum level equals the
\* threshold stored in the installed Logger, whatever init calls and log
\* events follow.
C2_MaxLevelIsInstalledThreshold == Installed => max_level = Sink.level

\* C3 as stated: an Error event with a reserved tag is always rendered, for
\* every verbosity, every value of the environment variable and either TTY
\* state.
C3_ErrorAlwaysRendered ==
  (IsLogCall /\ Installed /\ last.level = Error /\ Reserved(last.target))
    => out # <<>>

ResolvesOff(verbosity) == verbosity = "Default" /\ env = EnvOk("off")

\* C3 amended: an Error event with a reserved tag is rendered unless the
\* threshold resolved by the installing init call, or the one resolved by the
\* most recent init call, is Off; a resolution yields Off exactly for
\* verbosity Default with the environment variable set to exactly "off".
C3_ErrorRenderedUnlessOff ==
  /\ (IsLogCall /\ Installed /\ last.level = Error /\ Reserved(last.target))
       => (out # <<>> <=> (Sink.level # Off /\ max_level # Off))
  /\ Installed => (Sink.level = Off <=> ResolvesOff(installer[1].verbosity))
  /\ IsInitCall => (max_level = Off <=> ResolvesOff(last.verbosity))

C3_Witness ==
  /\ IsLogCall /\ Installed /\ last.level = Error /\ Reserved(last.target)
  /\ installer[1].verbosity = "Quiet" /\ env = EnvOk("off") /\ ~tty
  /\ out # <<>> /\ out[1].stream = "stderr"

\* C4: resolving Quiet always yields Error and resolving Verbose always
\* yields Debug, whatever the environment variable and the TTY state are.
C4_QuietAndVerboseAreFixed ==
  /\ IsInitCall =>
       /\ last.verbosity = "Quiet" => last.built.level = Error
       /\ last.verbosity = "Verbose" => last.built.level = Debug
  /\ Installed =>
       /\ installer[1].verbosity = "Quiet" => Sink.level = Error
       /\ installer[1].verbosity = "Verbose" => Sink.level = Debug

C4_Witness ==
  /\ IsInitCall /\ last.verbosity = "Quiet" /\ last.result = "Ok"
  /\ env = EnvOk("trace") /\ tty
  /\ Sink.level = Error

\* C5: resolving Default yields the threshold named by the environment
\* variable when its value is exactly one of off, error, warn, info, debug,
\* trace, whatever the TTY state; otherwise Info when stdout is a terminal
\* and Error when it is not.  A threshold is always produced.
C5_DefaultFollowsEnvThenTty ==
  IsInitCall =>
    /\ last.built.level \in LevelFilters
    /\ last.verbosity = "Default" =>
         last.built.level =
           CASE env = EnvOk("off") -> Off
             [] env = EnvOk("error") -> Error
             [] env = EnvOk("warn") -> Warn
             [] env = EnvOk("info") -> Info
             [] env = EnvOk("debug") -> Debug
             [] env = EnvOk("trace") -> Trace
             [] OTHER -> IF tty THEN Info ELSE Error

C5_Witness ==
  /\ IsInitCall /\ last.verbosity = "Default" /\ last.result = "Ok"
  /\ env = EnvOk("OFF") /\ tty
  /\ Sink.level = Info

\* C6: an event whose source tag does not begin with "volta" causes no write
\* to either stream, at any severity, threshold and context.
C6_ForeignTargetNeverWritten ==
  (IsLogCall /\ ~Reserved(last.target)) => out = <<>>

C6_Witness ==
  /\ IsLogCall /\ last.delivered /\ last.target = TagUpper
  /\ last.level = Error /\ Sink.level = Trace
  /\ out = <<>>

\* C7: eligibility is monotonic in severity: if S1 is eligible at the stored
\* threshold T then every S2 at least as severe as S1 is eligible at T; and
\* no event less severe than T is rendered.
C7_EligibilityMonotonic ==
  Installed =>
    /\ \A s1 \in Levels, s2 \in Levels :
         (Logger_enabled(Sink, s1) /\ s2 <= s1) => Logger_enabled(Sink, s2)
    /\ \A s \in Levels : Logger_enabled(Sink, s) => s <= Sink.level
    /\ (IsLogCall /\ last.level > Sink.level) => out = <<>>

C7_Witness ==
  /\ IsLogCall /\ last.delivered /\ Reserved(last.target)
  /\ Sink.level = Warn /\ last.level = Info
  /\ out = <<>>

WarningPrefixOf(context) ==
  IF context = "Volta" THEN WARNING_PREFIX ELSE SHIM_WARNING_PREFIX

ErrorPrefixOf(context) ==
  IF context = "Volta" THEN ERROR_PREFIX ELSE SHIM_ERROR_PREFIX

IsRenderedWarning == IsLogCall /\ last.level = Warn /\ out # <<>>

\* C8: with a width available, the body of a rendered warning is the wrapped
\* text of "<prefix> <message>" with only the leading prefix removed, so
\* every occurrence of the prefix text inside the message is preserved.
C8_OnlyLeadingPrefixStripped ==
  (IsRenderedWarning /\ text_width # <<>>) =>
    LET prefix == WarningPrefixOf(Sink.context)
        wrapped == Fill(prefix \o <<" ">> \o last.args, text_width[1])
    IN /\ out[1].text = StripLeading(wrapped, prefix)
       /\ Count(out[1].text, prefix) = Count(wrapped, prefix) - 1

\* an event the installed Logger receives and finds eligible
Eligible ==
  /\ IsLogCall /\ last.delivered
  /\ last.level <= Sink.level
  /\ Reserved(last.target)

\* C9: every eligible event the Logger receives produces exactly one line on
\* exactly one stream, stderr exactly for Error; Error lines are the styled
\* "error:" / "Volta error:" prefix, a space and the message; Warn lines the
\* styled "warning:" / "Volta warning:" prefix and the wrapped body; Debug
\* lines "[verbose] " and the message; Info and Trace lines the bare message.
C9_RenderingByLevelAndContext ==
  Eligible =>
    /\ Len(out) = 1
    /\ out[1].stream \in {"stdout", "stderr"}
    /\ out[1].stream = "stderr" <=> last.level = Error
    /\ last.level = Error =>
         /\ out[1].prefix = ErrorPrefixOf(Sink.context)
         /\ out[1].style = "red_bold"
         /\ out[1].text = <<" ">> \o last.args
    /\ last.level = Warn =>
         /\ out[1].prefix = WarningPrefixOf(Sink.context)
         /\ out[1].style = "yellow_bold"
         /\ out[1].text = wrap_content(WarningPrefixOf(Sink.context), last.args)
    /\ last.level = Debug =>
         /\ out[1].prefix = <<>> /\ out[1].style = "plain"
         /\ out[1].text = VERBOSE_TAG \o last.args
    /\ last.level \in {Info, Trace} =>
         /\ out[1].prefix = <<>> /\ out[1].style = "plain"
         /\ out[1].text = last.args

C9_Witness ==
  /\ Eligible /\ last.level = Debug /\ Sink.context = "Shim"
  /\ last.args = MsgCacheMiss
  /\ out = << Write("stdout", "plain", <<>>, VERBOSE_TAG \o MsgCacheMiss) >>

\* C10: with no width available the body of a rendered warning is one space
\* followed by the unmodified message: no line break is inserted and no text
\* is removed, even when the message contains the prefix text.
C10_NoWidthNoWrapping ==
  (IsRenderedWarning /\ text_width = <<>>) =>
    /\ out[1].prefix = WarningPrefixOf(Sink.context)
    /\ out[1].text = <<" ">> \o last.args
    /\ Count(out[1].text, <<"\n">>) = Count(last.args, <<"\n">>)

C10_Witness ==
  /\ IsRenderedWarning /\ ~tty /\ text_width = <<>>
  /\ Sink.context = "Volta" /\ last.args = MsgInner
  /\ out[1].text = <<" ">> \o MsgInner

====
